---------------------------- MODULE Spec2Model ----------------------------
(***************************************************************************)
(* Model of the Frugal Price Book (src/src/index.js, component            *)
(* PriceBookApp): the React state of the component, its event handlers,   *)
(* its effects and the two record stores (localStorage blob, Firestore    *)
(* collection).                                                           *)
(*                                                                         *)
(* Numbers.  A JavaScript number that the program can hold is modelled as  *)
(* an integer counting units of 0.00001 (Scale units make 1.0); NaN and    *)
(* Infinity are two integers outside the range of the finite numbers, and  *)
(* JsNull is what JSON.parse gives back for a NaN written by              *)
(* JSON.stringify.  The number such an integer stands for is the IEEE      *)
(* double nearest to the decimal.  Arithmetic is done on the decimals      *)
(* where the doubles cannot give another result and on the doubles where   *)
(* they can: where a quotient or a value to print is half way between two  *)
(* results, and where the two sides of a comparison are equal as decimals. *)
(*                                                                         *)
(* Text.  A string is a sequence of one-character strings, so that         *)
(* parseFloat, toFixed and trim are computed character by character.       *)
(*                                                                         *)
(* Environment.  The handlers are modelled as the code writes them: the    *)
(* browser's own validation of the form (required, type="number") is not   *)
(* part of them and is not modelled, so handleSubmit may be given any text *)
(* of the input alphabets.  A record's id and timestamp are its place in   *)
(* its collection.  In Firebase mode the snapshot listener runs at any     *)
(* time after the documents changed, so the page can lag behind the store; *)
(* a reload of the page is modelled in demo mode only.                     *)
(*                                                                         *)
(* Three specifications: Spec starts with an empty store, SpecReturning    *)
(* with what earlier sessions stored, SpecEngine calls the pure functions  *)
(* of the price engine on enumerated arguments.                            *)
(***************************************************************************)
EXTENDS Integers, Sequences, FiniteSets, TLC

VARIABLES
    items,            \* useState items: the in-memory record collection, newest first
    uniqueItems,      \* useState uniqueItems: the item catalog shown in the selector
    selectedItem,     \* useState selectedItem
    form,             \* useState form: six text fields
    loading,          \* useState loading
    isAuthenticated,  \* useState isAuthenticated (userId is non-null exactly when it is TRUE)
    configured,       \* isFirebaseConfigured: fixed for the life of the page
    storage,          \* localStorage['frugal-price-book-items']: NoBlob or the stored records
    committed,        \* Firestore: documents the server has acknowledged, newest first
    pending,          \* Firestore: documents written locally, addDoc not yet settled
    crashed,          \* a render threw: React has unmounted the component
    last,             \* the handler that ran last and what it did (observation only)
    probe             \* a call of a pure function of the price engine: arguments and result

app == <<items, uniqueItems, selectedItem, form, loading, isAuthenticated,
         configured, storage, committed, pending, crashed, last>>

vars == <<app, probe>>

----------------------------------------------------------------------------
(* Numbers *)

Scale == 100000

NaN == -2000000000

Infinity == 2000000000

JsNull == -2000000001

IsFinite(x) == x # NaN /\ x # Infinity /\ x # JsNull

\* ToNumber as applied by the relational operators and by Math.min: null is 0.
ToNumber(x) == IF x = JsNull THEN 0 ELSE x

\* a <= b
Lte(a, b) ==
    LET x == ToNumber(a)
        y == ToNumber(b)
    IN  x # NaN /\ y # NaN /\ x <= y

\* a > b
Gt(a, b) ==
    LET x == ToNumber(a)
        y == ToNumber(b)
    IN  x # NaN /\ y # NaN /\ x > y

\* a === b (no coercion; NaN equals nothing)
StrictEq(a, b) == a # NaN /\ b # NaN /\ a = b

\* Math.min(a, b)
MathMin2(a, b) ==
    LET x == ToNumber(a)
        y == ToNumber(b)
    IN  IF x = NaN \/ y = NaN THEN NaN
        ELSE IF x <= y THEN x ELSE y

\* Math.min(a, b, c)
MathMin3(a, b, c) == MathMin2(MathMin2(a, b), c)

----------------------------------------------------------------------------
(* IEEE 754 binary64.  A number of the program is the double nearest to its *)
(* decimal; where the decimal arithmetic meets an exact tie or an exact     *)
(* boundary, the doubles decide, and they are computed here.                *)

\* A natural number of any size is the sequence of its digits in base Limb,
\* the least significant first and the last one not 0.
LimbBits == 13

Limb == 8192

RECURSIVE Pow2(_)
Pow2(k) == IF k = 0 THEN 1 ELSE 2 * Pow2(k - 1)

RECURSIVE Big(_)
Big(n) == IF n = 0 THEN <<>> ELSE <<n % Limb>> \o Big(n \div Limb)

RECURSIVE BigStrip(_)
BigStrip(a) ==
    IF a # <<>> /\ a[Len(a)] = 0 THEN BigStrip(SubSeq(a, 1, Len(a) - 1)) ELSE a

\* a * m + c, for 0 < m <= 200000 and 0 <= c <= m
RECURSIVE BigMulSmall(_, _, _)
BigMulSmall(a, m, c) ==
    IF a = <<>> THEN Big(c)
    ELSE LET s == Head(a) * m + c
         IN  <<s % Limb>> \o BigMulSmall(Tail(a), m, s \div Limb)

\* a + b + c, c a carry
RECURSIVE BigAdd(_, _, _)
BigAdd(a, b, c) ==
    IF a = <<>> /\ b = <<>> THEN Big(c)
    ELSE LET x == IF a = <<>> THEN 0 ELSE Head(a)
             y == IF b = <<>> THEN 0 ELSE Head(b)
             s == x + y + c
         IN  <<s % Limb>> \o BigAdd(IF a = <<>> THEN <<>> ELSE Tail(a),
                                    IF b = <<>> THEN <<>> ELSE Tail(b), s \div Limb)

\* the digits of a - b - c, for a >= b + c, c a borrow
RECURSIVE BigSubDigits(_, _, _)
BigSubDigits(a, b, c) ==
    IF a = <<>> THEN <<>>
    ELSE LET y == IF b = <<>> THEN 0 ELSE Head(b)
             d == Head(a) - y - c
         IN  <<(d + Limb) % Limb>>
                 \o BigSubDigits(Tail(a), IF b = <<>> THEN <<>> ELSE Tail(b),
                                 IF d < 0 THEN 1 ELSE 0)

\* a - b, for a >= b
BigSub(a, b) == BigStrip(BigSubDigits(a, b, 0))

RECURSIVE BigCmpFrom(_, _, _)
BigCmpFrom(a, b, i) ==
    IF i = 0 THEN 0
    ELSE IF a[i] # b[i] THEN (IF a[i] < b[i] THEN 0 - 1 ELSE 1)
    ELSE BigCmpFrom(a, b, i - 1)

\* -1, 0, 1 as a < b, a = b, a > b
BigCmp(a, b) ==
    IF Len(a) # Len(b) THEN (IF Len(a) < Len(b) THEN 0 - 1 ELSE 1)
    ELSE BigCmpFrom(a, b, Len(a))

RECURSIVE BigMul(_, _)
BigMul(a, b) ==
    IF a = <<>> \/ b = <<>> THEN <<>>
    ELSE LET rest == BigMul(a, Tail(b))
         IN  BigAdd(IF Head(b) = 0 THEN <<>> ELSE BigMulSmall(a, Head(b), 0),
                    IF rest = <<>> THEN <<>> ELSE <<0>> \o rest, 0)

\* a * 2^k
RECURSIVE BigShl(_, _)
BigShl(a, k) ==
    IF k = 0 \/ a = <<>> THEN a
    ELSE IF k >= LimbBits THEN <<0>> \o BigShl(a, k - LimbBits)
    ELSE BigMulSmall(a, Pow2(k), 0)

RECURSIVE SmallBitLen(_)
SmallBitLen(n) == IF n = 0 THEN 0 ELSE 1 + SmallBitLen(n \div 2)

\* the number of bits of a
BigBitLen(a) ==
    IF a = <<>> THEN 0 ELSE LimbBits * (Len(a) - 1) + SmallBitLen(a[Len(a)])

\* one digit of a long division in base Limb, for r < den * Limb: the largest
\* t with den * t <= r, and r - den * t.  The bits of t from bit b down are
\* still to decide, t holds the bits above, r what they left.
RECURSIVE BigDigit(_, _, _, _)
BigDigit(r, den, t, b) ==
    IF b < 0 THEN [t |-> t, r |-> r]
    ELSE LET part == BigMulSmall(den, Pow2(b), 0)
         IN  IF BigCmp(part, r) <= 0
             THEN BigDigit(BigSub(r, part), den, t + Pow2(b), b - 1)
             ELSE BigDigit(r, den, t, b - 1)

\* long division in base Limb: digits i down to 1 of num are still to bring
\* down, q holds the digits of the quotient so far (none while they are 0),
\* r what they left; d is the digit that bringing down digit i gave
RECURSIVE BigDivFrom(_, _, _, _, _)
RECURSIVE BigDivNext(_, _, _, _, _)
BigDivFrom(num, den, i, q, r) ==
    IF i = 0 THEN [q |-> q, r |-> r]
    ELSE BigDivNext(num, den, i, q,
                    BigDigit(BigStrip(<<num[i]>> \o r), den, 0, LimbBits - 1))

BigDivNext(num, den, i, q, d) ==
    BigDivFrom(num, den, i - 1, IF d.t = 0 /\ q = <<>> THEN <<>> ELSE <<d.t>> \o q, d.r)

\* quotient and remainder of num by den, den > 0
BigDivMod(num, den) == BigDivFrom(num, den, Len(num), <<>>, <<>>)

\* A positive double is [m, e]: the number m * 2^e, m of 53 bits (or 2^53).
\* The quotient qr.q of 53 bits is rounded to the nearest, to the even one
\* on a tie: c is -1, 0, 1 as twice the remainder is below, at, above den.
RoundHalfEven(qr, c, e) ==
    [m |-> IF c > 0 \/ (c = 0 /\ qr.q[1] % 2 = 1) THEN BigAdd(qr.q, <<>>, 1) ELSE qr.q,
     e |-> e]

\* the double nearest to (num / den) * 2^e, when num / den has 53 bits
\* before the point
RoundQuotient(qr, den, e) == RoundHalfEven(qr, BigCmp(BigMulSmall(qr.r, 2, 0), den), e)

\* num * 2^s / den for any integer s, as a quotient of two naturals
Shifted(num, den, s, e) ==
    RoundQuotient(BigDivMod(IF s > 0 THEN BigShl(num, s) ELSE num,
                            IF s < 0 THEN BigShl(den, 0 - s) ELSE den),
                  IF s < 0 THEN BigShl(den, 0 - s) ELSE den, e - s)

\* s is such that num * 2^s / den has 53 or 54 bits before the point: one
\* less when it has 54
Aligned(num, den, s, e) ==
    IF BigCmp(IF s > 0 THEN BigShl(num, s) ELSE num,
              BigShl(den, IF s < 0 THEN 53 - s ELSE 53)) >= 0
    THEN Shifted(num, den, s - 1, e)
    ELSE Shifted(num, den, s, e)

\* the double nearest to (num / den) * 2^e, for num > 0 and den > 0
RoundToDouble(num, den, e) ==
    Aligned(num, den, 53 - (BigBitLen(num) - BigBitLen(den)), e)

\* the double of the decimal k / Scale, k > 0: what parseFloat and the
\* number literals give
Dbl(k) == RoundToDouble(Big(k), Big(Scale), 0)

\* x / y in doubles
DblDiv(x, y) == RoundToDouble(x.m, y.m, x.e - y.e)

\* x * y in doubles
DblMul(x, y) == RoundToDouble(BigMul(x.m, y.m), <<1>>, x.e + y.e)

\* x >= y
DblGe(x, y) ==
    IF x.e >= y.e THEN BigCmp(BigShl(x.m, x.e - y.e), y.m) >= 0
    ELSE BigCmp(x.m, BigShl(y.m, y.e - x.e)) >= 0

\* x >= a / b, for naturals 0 < a and 0 < b <= 200000
DblGeRatio(x, a, b) ==
    IF x.e >= 0 THEN BigCmp(BigShl(BigMulSmall(x.m, b, 0), x.e), Big(a)) >= 0
    ELSE BigCmp(BigMulSmall(x.m, b, 0), BigShl(Big(a), 0 - x.e)) >= 0

\* the literal 1.1
OnePointOne == RoundToDouble(Big(11), Big(10), 0)

\* a <= p for the doubles a and p of one sign, given as their magnitudes
OnBoundary(a, p, negative) == IF negative THEN DblGe(a, p) ELSE DblGe(p, a)

\* a <= b * 1.1.  Off the boundary 10 a = 11 b the decimals decide: the two
\* sides are 0.000001 apart or more, the doubles within 0.00000000001 of the
\* decimals.  On the boundary the double b * 1.1 is compared with the double a.
LteTimesOnePointOne(a, b) ==
    LET x == ToNumber(a)
        y == ToNumber(b)
    IN  /\ x # NaN /\ y # NaN
        /\ IF 10 * x # 11 * y THEN 10 * x < 11 * y
           ELSE IF x = 0 THEN TRUE
           ELSE OnBoundary(Dbl(IF x < 0 THEN 0 - x ELSE x),
                           DblMul(Dbl(IF y < 0 THEN 0 - y ELSE y), OnePointOne), x < 0)

----------------------------------------------------------------------------
(* Text *)

Digits == <<"0", "1", "2", "3", "4", "5", "6", "7", "8", "9">>

IsDigit(c) == \E i \in 1..10 : Digits[i] = c

DigitValue(c) == (CHOOSE i \in 1..10 : Digits[i] = c) - 1

IsWhite(c) == c = " "

\* UTF-16 code unit order of the characters the model uses (Array.prototype.sort)
CharCode(c) ==
    CASE c = " " -> 32
      [] c = "-" -> 45
      [] c = "." -> 46
      [] IsDigit(c) -> 48 + DigitValue(c)
      [] c = "a" -> 97
      [] c = "b" -> 98
      [] c = "s" -> 115
      [] c = "x" -> 120
      [] OTHER -> 65535

RECURSIVE TrimStart(_)
TrimStart(t) ==
    IF t # <<>> /\ IsWhite(Head(t)) THEN TrimStart(Tail(t)) ELSE t

RECURSIVE TrimEnd(_)
TrimEnd(t) ==
    IF t # <<>> /\ IsWhite(t[Len(t)]) THEN TrimEnd(SubSeq(t, 1, Len(t) - 1)) ELSE t

\* String.prototype.trim
Trim(t) == TrimEnd(TrimStart(t))

\* the length of the longest prefix of t made of digits
RECURSIVE DigitRun(_)
DigitRun(t) ==
    IF t # <<>> /\ IsDigit(Head(t)) THEN 1 + DigitRun(Tail(t)) ELSE 0

\* the value of a digit string read as an integer
RECURSIVE DigitsToInt(_)
DigitsToInt(t) ==
    IF t = <<>> THEN 0 ELSE DigitsToInt(SubSeq(t, 1, Len(t) - 1)) * 10 + DigitValue(t[Len(t)])

\* the value, in model units, of a digit string read as a decimal fraction:
\* the first five digits count, the model's inputs have no more
FracToUnits(t) ==
    LET five == [i \in 1..5 |-> IF i <= Len(t) THEN t[i] ELSE "0"]
    IN  DigitsToInt(five)

\* parseFloat: leading white space, an optional sign, digits with an optional
\* fraction; what follows is ignored; NaN when no digit was read.
\* (Exponents and the word Infinity are outside the alphabet of the model.)
ParseFloat(t) ==
    LET s    == TrimStart(t)
        neg  == s # <<>> /\ Head(s) = "-"
        u    == IF s # <<>> /\ Head(s) \in {"-", "+"} THEN Tail(s) ELSE s
        ni   == DigitRun(u)
        r    == SubSeq(u, ni + 1, Len(u))
        dot  == r # <<>> /\ Head(r) = "."
        nf   == IF dot THEN DigitRun(Tail(r)) ELSE 0
        mag  == DigitsToInt(SubSeq(u, 1, ni)) * Scale
                  + (IF nf > 0 THEN FracToUnits(SubSeq(r, 2, nf + 1)) ELSE 0)
    IN  IF ni = 0 /\ nf = 0 THEN NaN
        ELSE IF neg THEN 0 - mag ELSE mag

RECURSIVE Pow10(_)
Pow10(k) == IF k = 0 THEN 1 ELSE 10 * Pow10(k - 1)

\* the decimal digits of a natural number, at least one
RECURSIVE NatToText(_)
NatToText(n) ==
    IF n < 10 THEN <<Digits[n + 1]>> ELSE NatToText(n \div 10) \o <<Digits[(n % 10) + 1]>>

\* the last d decimal digits of n, with leading zeros
RECURSIVE PadDigits(_, _)
PadDigits(n, d) ==
    IF d = 0 THEN <<>> ELSE PadDigits(n \div 10, d - 1) \o <<Digits[(n % 10) + 1]>>

\* the text of m / 10^d with d fraction digits
FixedText(neg, m, d) ==
    (IF neg THEN <<"-">> ELSE <<>>) \o NatToText(m \div Pow10(d))
        \o (IF d = 0 THEN <<>> ELSE <<".">> \o PadDigits(m % Pow10(d), d))

\* Number.prototype.toFixed(d) of a finite number, d in 0..5: the multiple of
\* 10^-d nearest to the double.  When the decimal is half way between two of
\* them, the double is above, below or on the half: it goes up unless below.
ToFixed(x, d) ==
    LET a   == IF x < 0 THEN 0 - x ELSE x
        p   == Pow10(5 - d)
        tie == p > 1 /\ a % p = p \div 2
        up  == IF tie THEN DblGeRatio(Dbl(a), a, Scale) ELSE a % p > p \div 2
    IN  FixedText(x < 0, (a \div p) + (IF up THEN 1 ELSE 0), d)

\* p / q by long division: k more fraction digits to take; the digits taken
\* and what is left of the dividend
RECURSIVE LongDiv(_, _, _, _)
LongDiv(n, r, q, k) ==
    IF k = 0 THEN [n |-> n, r |-> r]
    ELSE LongDiv(n * 10 + ((r * 10) \div q), (r * 10) % q, q, k - 1)

\* the integer a Big holds
RECURSIVE BigToInt(_)
BigToInt(a) == IF a = <<>> THEN 0 ELSE Head(a) + Limb * BigToInt(Tail(a))

\* x.toFixed(5) of a positive double, as a number of units: the integer
\* nearest to x * Scale, the larger one on a tie
DblToFixed5(x) ==
    LET units == BigMulSmall(x.m, Scale, 0)
    IN  IF x.e >= 0 THEN BigToInt(BigShl(units, x.e))
        ELSE BigToInt(BigDivMod(BigAdd(BigShl(units, 1), BigShl(<<1>>, 0 - x.e), 0),
                                BigShl(<<1>>, 1 - x.e)).q)

\* (p / q).toFixed(5) for finite p > 0, q > 0.  The double quotient is within
\* 2^-51 of p / q in proportion, so the long division decides when what is
\* left is not half the divisor and (digits + 1) * q < 2^50; else the double
\* quotient is computed and rounded.
QuotientToFixed5(p, q) ==
    LET d       == LongDiv(p \div q, p % q, q, 5)
        decided == 2 * d.r # q /\ d.n < Pow2(20) /\ q < Pow2(30)
        m       == IF decided THEN d.n + (IF 2 * d.r > q THEN 1 ELSE 0)
                   ELSE DblToFixed5(DblDiv(Dbl(p), Dbl(q)))
    IN  FixedText(FALSE, m, 5)

----------------------------------------------------------------------------
(* Bounds and input alphabets *)

\* the most records a behaviour adds to the store it starts with
MaxItems == 1

\* the most addDoc calls awaiting their result at one time
MaxInFlight == 1

\* What the user types or picks.  Every text field starts empty, so the empty
\* text (which parseFloat reads as NaN) is a value of each field without being
\* typed; a field that is typed into stays one of the values below.
NameInputs == { <<"a">>, <<" ">> }

PriceInputs == { <<"-", "1">>, <<"1">> }

QuantityInputs == { <<"0">>, <<"1">>, <<"3">> }

TargetInputs == { <<"0", ".", "5">> }

\* What a returning user types or picks
ReturningNameInputs == { <<"a">>, <<" ", "a">> }

ReturningPriceInputs == { <<"1">> }

ReturningQuantityInputs == { <<"1">>, <<"3">> }

ReturningTargetInputs == { <<"0", ".", "5">> }

UnitInputs == { "lb" }

\* What is typed in Firebase mode, where the page can lag behind the store
\* and a record can be in three places: the other fields are filled in from
\* the selector or stay as they start
RemoteNameInputs == { <<"a">> }

RemotePriceInputs == { <<"1">> }

RemoteQuantityInputs == { <<"0">>, <<"1">> }

\* the alphabet of a field in the mode the page runs in
Typed(local, remote) == IF configured THEN remote ELSE local

StoreInputs == { <<"s">> }

----------------------------------------------------------------------------
(* State *)

\* the form as useState creates it and as every reset writes it
EmptyForm ==
    [name |-> <<>>, price |-> <<>>, quantity |-> <<>>, unit |-> "oz",
     rockBottomPrice |-> <<>>, store |-> <<>>]

\* localStorage.getItem gives null: nothing was stored
NoBlob == [stored |-> FALSE, records |-> <<>>]

\* the blob localStorage.setItem writes
Blob(recs) == [stored |-> TRUE, records |-> recs]

\* what `last` holds after a handler that is not handleSubmit
Did(op) ==
    [op |-> op, result |-> "none", appended |-> FALSE, name |-> <<>>, hl |-> 0, target |-> 0,
     item |-> <<>>]

\* no call of the price engine is under observation
NoProbe == [fn |-> "none", args |-> <<>>, out |-> <<>>]

Init ==
    /\ items = <<>>
    /\ uniqueItems = <<>>
    /\ selectedItem = <<>>
    /\ form = EmptyForm
    /\ loading = TRUE
    /\ isAuthenticated = FALSE
    /\ configured \in BOOLEAN
    /\ storage = NoBlob
    /\ committed = <<>>
    /\ pending = <<>>
    /\ crashed = FALSE
    /\ last = Did("init")
    /\ probe = NoProbe

----------------------------------------------------------------------------
(* Derived values *)

\* a < b in the order Array.prototype.sort gives strings (UTF-16 code units)
RECURSIVE LexLess(_, _)
LexLess(a, b) ==
    IF b = <<>> THEN FALSE
    ELSE IF a = <<>> THEN TRUE
    ELSE IF CharCode(Head(a)) # CharCode(Head(b)) THEN CharCode(Head(a)) < CharCode(Head(b))
    ELSE LexLess(Tail(a), Tail(b))

RECURSIVE SortSet(_)
SortSet(S) ==
    IF S = {} THEN <<>>
    ELSE LET m == CHOOSE x \in S : \A y \in S \ {x} : LexLess(x, y)
         IN  <<m>> \o SortSet(S \ {m})

\* [...new Set(recs.map(item => item.name))].sort()
UniqueNames(recs) == SortSet({ recs[i].name : i \in 1..Len(recs) })

\* relevantItems.reduce((min, item) => Math.min(min, item.unitPrice), Infinity)
RECURSIVE ReduceMin(_, _)
ReduceMin(acc, recs) ==
    IF recs = <<>> THEN acc
    ELSE ReduceMin(MathMin2(acc, Head(recs).unitPrice), Tail(recs))

\* the body of the historicalLowPrice memo, for a collection and a selected name
HistoricalLow(recs, sel) ==
    IF sel = <<>> THEN 0
    ELSE LET relevantItems == SelectSeq(recs, LAMBDA item : item.name = sel)
             lowestPrice == ReduceMin(Infinity, relevantItems)
         IN  IF relevantItems = <<>> THEN 0
             ELSE IF lowestPrice = Infinity THEN 0 ELSE lowestPrice

\* the memo as the handlers and the render of the current state see it
historicalLowPrice == HistoricalLow(items, selectedItem)

\* lines 179-183 with the quotient cut after five digits, not rounded
calculateUnitPriceTruncating(price, quantity) ==
    IF Lte(price, 0) \/ Lte(quantity, 0) THEN 0
    ELSE IF price = NaN \/ quantity = NaN THEN NaN
    ELSE ParseFloat(FixedText(FALSE,
                              LongDiv(price \div quantity, price % quantity, quantity, 5).n,
                              5))

\* lines 179-183
calculateUnitPrice(price, quantity) ==
    IF Lte(price, 0) \/ Lte(quantity, 0) THEN 0
    ELSE IF price = NaN \/ quantity = NaN THEN NaN
    ELSE ParseFloat(QuotientToFixed5(price, quantity))

\* the memo currentUnitPrice: the live preview under the form
currentUnitPrice == calculateUnitPrice(ParseFloat(form.price), ParseFloat(form.quantity))

\* renderDealStatus(item), given the historicalLowPrice of the render
renderDealStatus(item, hl) ==
    LET isRockBottom == \/ Lte(item.unitPrice, hl)
                        \/ (StrictEq(hl, 0) /\ StrictEq(item.unitPrice, item.rockBottomPrice))
        isGoodDeal   == Lte(item.unitPrice, item.rockBottomPrice)
        isCloseDeal  == /\ Gt(item.unitPrice, item.rockBottomPrice)
                        /\ LteTimesOnePointOne(item.unitPrice, item.rockBottomPrice)
    IN  IF StrictEq(item.rockBottomPrice, 0) THEN "NoTarget"
        ELSE IF isRockBottom THEN "NewRockBottom"
        ELSE IF isGoodDeal THEN "GoodDeal"
        ELSE IF isCloseDeal THEN "CloseDeal"
        ELSE "BadDeal"

\* the Deal Status column of the history table, row by row
StatusColumn == [i \in 1..Len(items) |-> renderDealStatus(items[i], historicalLowPrice)]

\* formatUnitPrice(item.unitPrice) throws when the value is null
RenderThrows(recs) == \E i \in 1..Len(recs) : recs[i].unitPrice = JsNull

\* JSON.parse(JSON.stringify(recs)): a NaN is written as null
JsonNumber(x) == IF x = NaN THEN JsNull ELSE x

JsonRoundTrip(recs) ==
    [i \in 1..Len(recs) |->
        [recs[i] EXCEPT !.price = JsonNumber(@), !.quantity = JsonNumber(@),
                        !.rockBottomPrice = JsonNumber(@), !.unitPrice = JsonNumber(@)]]

----------------------------------------------------------------------------
(* Effects *)

\* the auth effect when Firebase is not configured (demo mode): lines 58-78.
\* It runs once after the first render of a page; the page shows only the
\* loading screen before it.  The render that follows throws when a stored
\* unit price came back as null.
AuthEffectDemo ==
    /\ ~configured /\ loading /\ ~crashed
    /\ isAuthenticated' = TRUE
    /\ loading' = FALSE
    /\ IF storage.stored
       THEN /\ items' = storage.records
            /\ uniqueItems' = UniqueNames(storage.records)
       ELSE UNCHANGED <<items, uniqueItems>>
    /\ crashed' = RenderThrows(items')
    /\ last' = Did("mount")
    /\ UNCHANGED probe
    /\ UNCHANGED <<selectedItem, form, configured, storage, committed, pending>>

\* the user reloads the page (demo mode): the component is constructed anew,
\* the blob stays
PageReload ==
    /\ ~configured /\ ~loading
    /\ items' = <<>>
    /\ uniqueItems' = <<>>
    /\ selectedItem' = <<>>
    /\ form' = EmptyForm
    /\ loading' = TRUE
    /\ isAuthenticated' = FALSE
    /\ crashed' = FALSE
    /\ last' = Did("init")
    /\ UNCHANGED probe
    /\ UNCHANGED <<configured, storage, committed, pending>>

\* the listener of onAuthStateChanged: lines 94-103.  The SDK calls it with
\* null when there is no session (none yet, or one that ended on the server
\* or in another tab) and with the user when sign-in ends.
onAuthStateChanged(user) ==
    /\ configured /\ ~crashed
    /\ isAuthenticated' = user
    /\ loading' = FALSE
    /\ last' = Did("auth")
    /\ UNCHANGED probe
    /\ UNCHANGED <<items, uniqueItems, selectedItem, form, configured, storage,
                   committed, pending, crashed>>

\* the documents the snapshot listener is given: local writes first
\* (orderBy timestamp desc; a pending serverTimestamp sorts as the latest)
SnapshotDocs == pending \o committed

\* the listener has not yet been given the current documents
SnapshotDue == configured /\ isAuthenticated /\ items # SnapshotDocs

\* Number(x) of a stored field: a number is itself, null is 0
NumberOf(x) == IF x = JsNull THEN 0 ELSE x

\* the listener of onSnapshot: lines 120-134
onSnapshot ==
    /\ SnapshotDue /\ ~crashed
    /\ LET fetchedItems ==
               [i \in 1..Len(SnapshotDocs) |->
                   [SnapshotDocs[i] EXCEPT !.price = NumberOf(@), !.quantity = NumberOf(@),
                                           !.rockBottomPrice = NumberOf(@),
                                           !.unitPrice = NumberOf(@)]]
       IN  /\ items' = fetchedItems
           /\ uniqueItems' = UniqueNames(fetchedItems)
    /\ last' = Did("snapshot")
    /\ UNCHANGED probe
    /\ UNCHANGED <<selectedItem, form, loading, isAuthenticated, configured, storage,
                   committed, pending, crashed>>

----------------------------------------------------------------------------
(* Handlers *)

\* lines 294-306: the page, with the form and its handlers, is shown as soon
\* as loading is false (and no render threw)
Rendered == ~loading /\ ~crashed

\* the options of the item selector: "" and the catalog, when the catalog is not empty
SelectorOptions ==
    IF uniqueItems = <<>> THEN {} ELSE { <<>> } \cup { uniqueItems[i] : i \in 1..Len(uniqueItems) }

\* value is truthy (a number)
Truthy(x) == x # 0 /\ x # NaN /\ x # JsNull

\* items.find(item => item.name === name): the index of the first match, 0 when none
FindIndex(recs, name) ==
    IF \E i \in 1..Len(recs) : recs[i].name = name
    THEN CHOOSE i \in 1..Len(recs) :
             /\ recs[i].name = name
             /\ \A j \in 1..(i - 1) : recs[j].name # name
    ELSE 0

\* the form handleItemSelect writes for a found entry, given the historicalLowPrice it reads
SelectedForm(prev, lastEntry, hl) ==
    [prev EXCEPT
        !.name = lastEntry.name,
        !.unit = IF lastEntry.unit = "" THEN "oz" ELSE lastEntry.unit,
        !.rockBottomPrice =
            IF Gt(hl, 0) THEN ToFixed(hl, 4)
            ELSE IF Truthy(lastEntry.rockBottomPrice)
                 THEN ToFixed(lastEntry.rockBottomPrice, 4)
                 ELSE <<>>]

\* lines 157-176.  historicalLowPrice is the memo of the render the handler
\* belongs to: it was computed for the item selected before this event.
handleItemSelect(name) ==
    /\ Rendered
    /\ name \in SelectorOptions
    /\ selectedItem' = name
    /\ IF name # <<>>
       THEN LET k == FindIndex(items, name)
            IN  IF k # 0
                THEN form' = SelectedForm(form, items[k], historicalLowPrice)
                ELSE UNCHANGED form
       ELSE form' = EmptyForm
    /\ last' = Did("select")
    /\ UNCHANGED probe
    /\ UNCHANGED <<items, uniqueItems, loading, isAuthenticated, configured, storage,
                   committed, pending, crashed>>

\* lines 185-192
handleFormChange(field, value) ==
    /\ Rendered
    /\ selectedItem' = IF field = "name" THEN value ELSE selectedItem
    /\ form' = [form EXCEPT ![field] = value]
    /\ last' = Did("change")
    /\ UNCHANGED probe
    /\ UNCHANGED <<items, uniqueItems, loading, isAuthenticated, configured, storage,
                   committed, pending, crashed>>

\* parseFloat(form.rockBottomPrice) || 0
StatedTarget(f) ==
    LET t == ParseFloat(f.rockBottomPrice)
    IN  IF Truthy(t) THEN t ELSE 0

\* the validation of line 216 with the quantity test `< 0`
RefusedUnlessQuantityIsZero(f) ==
    \/ f.name = <<>>
    \/ Lte(ParseFloat(f.price), 0)
    \/ (ParseFloat(f.quantity) # NaN /\ ParseFloat(f.quantity) < 0)

\* the validation of line 216: TRUE when the submission is refused
Refused(f) ==
    \/ f.name = <<>>
    \/ Lte(ParseFloat(f.price), 0)
    \/ Lte(ParseFloat(f.quantity), 0)

\* lines 224-229: the rockBottomPrice to persist
DeriveRockBottom(rockBottomNum, hl, unitPriceCalculated) ==
    IF Gt(hl, 0) THEN MathMin3(rockBottomNum, hl, unitPriceCalculated)
    ELSE IF StrictEq(rockBottomNum, 0) THEN unitPriceCalculated
    ELSE rockBottomNum

\* form.store.trim() || 'Unknown'
StoreOf(f) == IF Trim(f.store) = <<>> THEN <<"Unknown">> ELSE Trim(f.store)

\* lines 231-241 (id and timestamp are the record's place in its collection)
NewItem(f, hl) ==
    LET priceNum == ParseFloat(f.price)
        quantityNum == ParseFloat(f.quantity)
        unitPriceCalculated == calculateUnitPrice(priceNum, quantityNum)
    IN  [name |-> Trim(f.name),
         price |-> priceNum,
         quantity |-> quantityNum,
         unit |-> f.unit,
         store |-> StoreOf(f),
         rockBottomPrice |-> DeriveRockBottom(StatedTarget(f), hl, unitPriceCalculated),
         unitPrice |-> unitPriceCalculated]

\* what `last` holds after handleSubmit: how it ended, whether a persistence
\* call (addDoc, localStorage.setItem) was made, the name as typed, the
\* historicalLowPrice and the target it read, and the record it built
Submitted(result, appended, item) ==
    [op |-> "submit", result |-> result, appended |-> appended, name |-> form.name,
     hl |-> historicalLowPrice, target |-> StatedTarget(form), item |-> item]

\* lines 206-209
SubmitUnauthenticated ==
    /\ Rendered /\ ~isAuthenticated
    /\ last' = Submitted("unauthenticated", FALSE, <<>>)
    /\ UNCHANGED probe
    /\ UNCHANGED <<items, uniqueItems, selectedItem, form, loading, isAuthenticated,
                   configured, storage, committed, pending, crashed>>

\* lines 216-219
SubmitRefused ==
    /\ Rendered /\ isAuthenticated
    /\ Refused(form)
    /\ last' = Submitted("refused", FALSE, <<>>)
    /\ UNCHANGED probe
    /\ UNCHANGED <<items, uniqueItems, selectedItem, form, loading, isAuthenticated,
                   configured, storage, committed, pending, crashed>>

\* lines 251-264, demo mode; setItemThrows: localStorage.setItem throws
\* (quota, storage disabled), after setItems and before the rest
SubmitLocal(cap, setItemThrows) ==
    /\ Rendered /\ isAuthenticated /\ ~configured
    /\ ~Refused(form)
    /\ Len(items) < cap
    /\ LET newItem == NewItem(form, historicalLowPrice)
           updatedItems == <<newItem>> \o items
       IN  /\ items' = updatedItems
           /\ IF setItemThrows
              THEN /\ last' = Submitted("threw", TRUE, newItem)
                   /\ UNCHANGED <<storage, uniqueItems, form, selectedItem>>
              ELSE /\ storage' = Blob(JsonRoundTrip(updatedItems))
                   /\ uniqueItems' = UniqueNames(updatedItems)
                   /\ form' = EmptyForm
                   /\ selectedItem' = <<>>
                   /\ last' = Submitted("stored", TRUE, newItem)
    /\ UNCHANGED probe
    /\ UNCHANGED <<loading, isAuthenticated, configured, committed, pending, crashed>>

\* lines 244-250 up to the await: addDoc writes the document locally and sends it
SubmitRemote(cap) ==
    /\ Rendered /\ isAuthenticated /\ configured
    /\ ~Refused(form)
    /\ Len(SnapshotDocs) < cap
    /\ Len(pending) < MaxInFlight
    /\ LET newItem == NewItem(form, historicalLowPrice)
       IN  /\ pending' = <<newItem>> \o pending
           /\ last' = Submitted("sent", TRUE, newItem)
    /\ UNCHANGED probe
    /\ UNCHANGED <<items, uniqueItems, selectedItem, form, loading, isAuthenticated,
                   configured, storage, committed, crashed>>

\* lines 203-268; cap bounds the records a store may hold
handleSubmit(cap) ==
    \/ SubmitUnauthenticated
    \/ SubmitRefused
    \/ \E setItemThrows \in BOOLEAN : SubmitLocal(cap, setItemThrows)
    \/ SubmitRemote(cap)

\* the i-th pending write without its place in the sequence
RemoveAt(q, i) == SubSeq(q, 1, i - 1) \o SubSeq(q, i + 1, Len(q))

\* lines 262-267 after the await: addDoc resolved (the server took the
\* document) or rejected (the local write is rolled back)
addDocSettled(i, ok) ==
    /\ configured /\ ~crashed
    /\ i \in 1..Len(pending)
    /\ pending' = RemoveAt(pending, i)
    /\ IF ok
       THEN /\ committed' = <<pending[i]>> \o committed
            /\ form' = EmptyForm
            /\ selectedItem' = <<>>
       ELSE UNCHANGED <<committed, form, selectedItem>>
    /\ last' = Did(IF ok THEN "resolved" ELSE "rejected")
    /\ UNCHANGED probe
    /\ UNCHANGED <<items, uniqueItems, loading, isAuthenticated, configured, storage, crashed>>

----------------------------------------------------------------------------

\* The behaviours that start with an empty store.  The unit and store fields
\* are left as they start here; the behaviours of a returning user set them.
Next ==
    \/ AuthEffectDemo
    \/ PageReload
    \/ \E user \in BOOLEAN : onAuthStateChanged(user)
    \/ onSnapshot
    \/ \E name \in SelectorOptions : handleItemSelect(name)
    \/ \E value \in Typed(NameInputs, RemoteNameInputs) : handleFormChange("name", value)
    \/ \E value \in Typed(PriceInputs, RemotePriceInputs) : handleFormChange("price", value)
    \/ \E value \in Typed(QuantityInputs, RemoteQuantityInputs) :
          handleFormChange("quantity", value)
    \/ \E value \in Typed(TargetInputs, {}) : handleFormChange("rockBottomPrice", value)
    \/ handleSubmit(MaxItems)
    \/ \E i \in 1..MaxInFlight : \E ok \in BOOLEAN : addDocSettled(i, ok)

Spec == Init /\ [][Next]_vars


----------------------------------------------------------------------------
(* A returning user: the store holds what earlier sessions wrote *)

FormOf(name, price, quantity, unit, target, store) ==
    [name |-> name, price |-> price, quantity |-> quantity, unit |-> unit,
     rockBottomPrice |-> target, store |-> store]

\* the collection after the forms fs were typed and submitted one after the
\* other (the last of fs first), starting from an empty collection
RECURSIVE StoreAfter(_)
StoreAfter(fs) ==
    IF fs = <<>> THEN <<>>
    ELSE LET before == StoreAfter(Tail(fs))
             f == Head(fs)
         IN  <<NewItem(f, HistoricalLow(before, f.name))>> \o before

\* a: 2 for 3 (0.66667 each), no target, bought after b: 1 for 1 at store s
EarlierSessionA ==
    << FormOf(<<"a">>, <<"2">>, <<"3">>, "oz", <<>>, <<>>),
       FormOf(<<"b">>, <<"1">>, <<"1">>, "lb", <<>>, <<"s">>) >>

\* a: 1 for 3 (0.33333 each) with the target 0.5, bought after a: 1 for 1
EarlierSessionB ==
    << FormOf(<<"a">>, <<"1">>, <<"3">>, "lb", <<"0", ".", "5">>, <<>>),
       FormOf(<<"a">>, <<"1">>, <<"1">>, "oz", <<>>, <<>>) >>

EarlierStores == { StoreAfter(EarlierSessionA), StoreAfter(EarlierSessionB) }

EarlierLen == Len(EarlierSessionA)

InitReturning ==
    /\ items = <<>>
    /\ uniqueItems = <<>>
    /\ selectedItem = <<>>
    /\ form = EmptyForm
    /\ loading = TRUE
    /\ isAuthenticated = FALSE
    /\ configured \in BOOLEAN
    /\ \E earlier \in EarlierStores :
          IF configured
          THEN storage = NoBlob /\ committed = earlier
          ELSE storage = Blob(JsonRoundTrip(earlier)) /\ committed = <<>>
    /\ pending = <<>>
    /\ crashed = FALSE
    /\ last = Did("init")
    /\ probe = NoProbe

NextReturning ==
    \/ AuthEffectDemo
    \/ PageReload
    \/ \E user \in BOOLEAN : onAuthStateChanged(user)
    \/ onSnapshot
    \/ \E name \in SelectorOptions : handleItemSelect(name)
    \/ \E value \in Typed(ReturningNameInputs, RemoteNameInputs) :
          handleFormChange("name", value)
    \/ \E value \in Typed(ReturningPriceInputs, RemotePriceInputs) :
          handleFormChange("price", value)
    \/ \E value \in Typed(ReturningQuantityInputs, RemoteQuantityInputs) :
          handleFormChange("quantity", value)
    \/ \E value \in Typed(UnitInputs, {}) : handleFormChange("unit", value)
    \/ \E value \in Typed(ReturningTargetInputs, {}) :
          handleFormChange("rockBottomPrice", value)
    \/ \E value \in Typed(StoreInputs, {}) : handleFormChange("store", value)
    \/ handleSubmit(EarlierLen + MaxItems)
    \/ \E i \in 1..MaxInFlight : \E ok \in BOOLEAN : addDocSettled(i, ok)

SpecReturning == InitReturning /\ [][NextReturning]_vars

----------------------------------------------------------------------------
(* The price engine, one call at a time *)

\* prices in cents and whole quantities, as model units
EnginePrices == { NaN, 0 - 1000, 0, 1000, 2000, 3000, 100000, 399000, 499000, 600000 }

EngineQuantities ==
    { NaN, 0, 1 * Scale, 3 * Scale, 7 * Scale, 16 * Scale, 1999 * Scale, 2001 * Scale }

\* unit prices, targets and historical lows that records and renders hold
EngineMoney == { NaN, 0, 13570, 14927, 24938, 25000, 27000, 27500, 27501, 31188, 37500 }

EngineProbes ==
    { [fn |-> "calculateUnitPrice", args |-> <<p, q>>, out |-> <<>>] :
          p \in EnginePrices, q \in EngineQuantities }
    \cup
    { [fn |-> "renderDealStatus", args |-> <<u, r, h>>, out |-> <<>>] :
          u \in EngineMoney, r \in EngineMoney, h \in EngineMoney }

InitEngine ==
    /\ items = <<>>
    /\ uniqueItems = <<>>
    /\ selectedItem = <<>>
    /\ form = EmptyForm
    /\ loading = TRUE
    /\ isAuthenticated = FALSE
    /\ configured = FALSE
    /\ storage = NoBlob
    /\ committed = <<>>
    /\ pending = <<>>
    /\ crashed = FALSE
    /\ last = Did("init")
    /\ probe \in EngineProbes

CallUnitPrice ==
    /\ probe.fn = "calculateUnitPrice" /\ probe.out = <<>>
    /\ probe' = [probe EXCEPT !.out = <<calculateUnitPrice(probe.args[1], probe.args[2])>>]
    /\ UNCHANGED app

CallDealStatus ==
    /\ probe.fn = "renderDealStatus" /\ probe.out = <<>>
    /\ LET item == [unitPrice |-> probe.args[1], rockBottomPrice |-> probe.args[2]]
       IN  probe' = [probe EXCEPT !.out = <<renderDealStatus(item, probe.args[3])>>]
    /\ UNCHANGED app

NextEngine == CallUnitPrice \/ CallDealStatus

SpecEngine == InitEngine /\ [][NextEngine]_vars

----------------------------------------------------------------------------
(* The properties the specification states, in its own terms *)

\* the elements of a sequence
Range(q) == { q[i] : i \in 1..Len(q) }

\* every record the program holds: in memory, in the blob, in the Firestore
\* collection (acknowledged or not)
AllRecords == Range(items) \cup Range(storage.records) \cup Range(committed) \cup Range(pending)

\* u is p / q rounded to five fraction digits, half away from zero, for
\* finite p > 0 and q > 0 in model units: -q < 2 (u q - p Scale) <= q, once
\* the factors of ten that p and q share are cancelled
RECURSIVE IsRounded5(_, _, _)
IsRounded5(u, p, q) ==
    IF p % 10 = 0 /\ q % 10 = 0 THEN IsRounded5(u, p \div 10, q \div 10)
    ELSE LET d == 2 * (u * q - p * Scale)
         IN  d <= q /\ d > 0 - q

\* u is a multiple of 0.00001 nearest to p / q, either one when p / q is half
\* way between two: | 2 (u q - p Scale) | <= q
RECURSIVE IsNearest5(_, _, _)
IsNearest5(u, p, q) ==
    IF p % 10 = 0 /\ q % 10 = 0 THEN IsNearest5(u, p \div 10, q \div 10)
    ELSE LET d == 2 * (u * q - p * Scale)
         IN  d <= q /\ d >= 0 - q

\* p / q <= 0.000005
RECURSIVE IsAtMostHalfUnit(_, _)
IsAtMostHalfUnit(p, q) ==
    IF p % 10 = 0 /\ q % 10 = 0 THEN IsAtMostHalfUnit(p \div 10, q \div 10)
    ELSE 2 * Scale * p <= q

\* p / q < 0.000005 for finite p > 0 and q > 0 in model units:
\* 2 Scale p < q, once the factors of ten that p and q share are cancelled
RECURSIVE IsBelowHalfUnit(_, _)
IsBelowHalfUnit(p, q) ==
    IF p % 10 = 0 /\ q % 10 = 0 THEN IsBelowHalfUnit(p \div 10, q \div 10)
    ELSE 2 * Scale * p < q

\* the submissions the specification says are rejected: an empty name, or a
\* parsed price or quantity that is <= 0
MustBeRejected(f) ==
    LET price == ParseFloat(f.price)
        quantity == ParseFloat(f.quantity)
    IN  \/ f.name = <<>>
        \/ (price # NaN /\ price <= 0)
        \/ (quantity # NaN /\ quantity <= 0)

\* C1: a handleSubmit of a form whose name is empty or whose parsed price or
\* quantity is <= 0 makes no persistence call (neither addDoc nor
\* localStorage.setItem) and leaves the record collection, the item catalog,
\* the stored blob, the Firestore collection and the form as they were; a
\* signed-in user is shown the validation alert.
C1_RejectedSubmissionChangesNothing ==
    [][ (last'.op = "submit" /\ MustBeRejected(form))
        => /\ ~last'.appended
           /\ (isAuthenticated => last'.result = "refused")
           /\ UNCHANGED <<items, uniqueItems, storage, committed, pending, form, selectedItem>>
      ]_vars

\* C1 happens: a filled form with the quantity 0 was submitted and refused
\* while a record was already in the collection
C1_Witness ==
    /\ last.op = "submit" /\ last.result = "refused"
    /\ form.name # <<>>
    /\ Gt(ParseFloat(form.price), 0)
    /\ ParseFloat(form.quantity) = 0
    /\ items # <<>>

\* C2: every record the program holds has price > 0, quantity > 0 and
\* unitPrice = round5(price / quantity); a price or quantity that is not a
\* number never reaches a persistence call.
C2_EveryRecordIsValid ==
    /\ \A r \in AllRecords :
          /\ IsFinite(r.price) /\ r.price > 0
          /\ IsFinite(r.quantity) /\ r.quantity > 0
          /\ IsFinite(r.unitPrice)
          /\ IsRounded5(r.unitPrice, r.price, r.quantity)
    /\ (last.op = "submit" /\ last.appended)
          => (last.item.price # NaN /\ last.item.quantity # NaN)

\* C10: every record the program holds has a name that is not empty and has
\* no white space around it.
C10_EveryNameIsTrimmedAndNotEmpty ==
    \A r \in AllRecords : r.name # <<>> /\ Trim(r.name) = r.name

\* the call of renderDealStatus under observation has returned
StatusProbed == probe.fn = "renderDealStatus" /\ probe.out # <<>>

\* the call of calculateUnitPrice under observation has returned
UnitPriceProbed == probe.fn = "calculateUnitPrice" /\ probe.out # <<>>

\* the classification as the specification words it: the first status that
\* matches, the historical low counting for NewRockBottom only when it is > 0
ClassifyAsSpecified(unitPrice, rockBottomPrice, historicalLow) ==
    LET num(x) == x # NaN
        le(a, b) == num(a) /\ num(b) /\ a <= b
        lt(a, b) == num(a) /\ num(b) /\ a < b
        eq(a, b) == num(a) /\ num(b) /\ a = b
    IN  IF eq(rockBottomPrice, 0) THEN "NoTarget"
        ELSE IF \/ (lt(0, historicalLow) /\ le(unitPrice, historicalLow))
                \/ (eq(historicalLow, 0) /\ eq(unitPrice, rockBottomPrice))
             THEN "NewRockBottom"
        ELSE IF le(unitPrice, rockBottomPrice) THEN "GoodDeal"
        ELSE IF lt(rockBottomPrice, unitPrice)
                /\ num(unitPrice) /\ 10 * unitPrice <= 11 * rockBottomPrice
             THEN "CloseDeal"
        ELSE "BadDeal"

\* C3: renderDealStatus returns, for every record and every historical low,
\* the first matching status of: NoTarget if rockBottomPrice = 0; NewRockBottom
\* if (historicalLow > 0 and unitPrice <= historicalLow) or (historicalLow = 0
\* and unitPrice = rockBottomPrice); GoodDeal if unitPrice <= rockBottomPrice;
\* CloseDeal if rockBottomPrice < unitPrice <= 1.1 rockBottomPrice; BadDeal
\* otherwise.
C3_StatusIsTheSpecifiedOne ==
    StatusProbed
        => probe.out[1] = ClassifyAsSpecified(probe.args[1], probe.args[2], probe.args[3])

\* C5 as stated: for price > 0 and quantity > 0, calculateUnitPrice is
\* price / quantity rounded to five fraction digits (half away from zero) and
\* is strictly positive.
C5_UnitPriceIsRoundedAndPositive ==
    (UnitPriceProbed /\ Gt(probe.args[1], 0) /\ Gt(probe.args[2], 0))
        => /\ IsRounded5(probe.out[1], probe.args[1], probe.args[2])
           /\ probe.out[1] > 0

\* C5, amended: for price > 0 and quantity > 0, calculateUnitPrice is a
\* multiple of 0.00001 nearest to price / quantity (either neighbour when
\* price / quantity is half way between two); it is never negative, it is 0
\* whenever price / quantity is below 0.000005 and only when it is at most
\* 0.000005.
C5_UnitPriceIsRoundedAndNotNegative ==
    (UnitPriceProbed /\ Gt(probe.args[1], 0) /\ Gt(probe.args[2], 0))
        => /\ IsNearest5(probe.out[1], probe.args[1], probe.args[2])
           /\ probe.out[1] >= 0
           /\ (IsBelowHalfUnit(probe.args[1], probe.args[2]) => probe.out[1] = 0)
           /\ (probe.out[1] = 0 => IsAtMostHalfUnit(probe.args[1], probe.args[2]))

\* C5 happens: the price 0.01 for 2001 units, below 0.000005 each, gave 0
C5_Witness ==
    /\ UnitPriceProbed
    /\ probe.args = <<1000, 2001 * Scale>>
    /\ probe.out = <<0>>

\* the least of a set of numbers as Math.min gives it
LeastOf(S) == IF NaN \in S THEN NaN ELSE CHOOSE m \in S : \A x \in S : m <= x

\* the historical low of an item as the specification defines it: 0 for the
\* empty name and for a name no record has, else the least unitPrice among
\* the records with exactly that name
ItemLow(recs, name) ==
    LET prices == { recs[i].unitPrice : i \in { j \in 1..Len(recs) : recs[j].name = name } }
    IN  IF name = <<>> \/ prices = {} THEN 0 ELSE LeastOf(prices)

\* the collection the last handleSubmit found: it has put its record in front
\* of `items` in demo mode and has left `items` alone in Firebase mode
RecordsBeforeLastSubmit ==
    IF last.result \in {"stored", "threw"} THEN Tail(items) ELSE items

\* the rockBottomPrice the specification derives from the stated target, the
\* item's historical low and the unit price paid
TargetAsSpecified(statedTarget, historicalLow, computedUnitPrice) ==
    IF Gt(historicalLow, 0) THEN LeastOf({statedTarget, historicalLow, computedUnitPrice})
    ELSE IF statedTarget = 0 THEN computedUnitPrice
    ELSE statedTarget

\* C4: on every accepted submission the persisted rockBottomPrice is
\* min(statedTarget, historicalLow, unitPrice) when the historical low of the
\* item (the least unit price recorded under the persisted name) is > 0, the
\* unit price when that low is 0 and the stated target is 0, and the stated
\* target otherwise; so when the low is > 0 the persisted rockBottomPrice is
\* higher neither than the low nor than the unit price paid.
C4_TargetIsDerivedFromTheItemsLow ==
    (last.op = "submit" /\ last.appended)
        => LET low  == ItemLow(RecordsBeforeLastSubmit, last.item.name)
               paid == last.item.unitPrice
               kept == last.item.rockBottomPrice
           IN  /\ kept = TargetAsSpecified(last.target, low, paid)
               /\ Gt(low, 0) => (~Gt(kept, low) /\ ~Gt(kept, paid))

\* the names a historical low is asked for: what the user may type or pick
LowNames == { <<>> } \cup NameInputs \cup ReturningNameInputs \cup { r.name : r \in Range(items) }

\* a sequence back to front
Reverse(q) == [i \in 1..Len(q) |-> q[Len(q) + 1 - i]]

\* C6: for the record collection and any item name, historicalLow is 0 when
\* the name is empty or no record has it; otherwise it is the unitPrice of a
\* record with that name, is <= the unitPrice of every record with that name,
\* and is the same for the collection in the opposite order.
C6_LowIsTheMinimum ==
    \A name \in LowNames :
        LET matching == { i \in 1..Len(items) : items[i].name = name }
            low == HistoricalLow(items, name)
        IN  IF name = <<>> \/ matching = {} THEN low = 0
            ELSE /\ \E i \in matching : low = items[i].unitPrice
                 /\ \A i \in matching : Lte(low, items[i].unitPrice)
                 /\ low = HistoricalLow(Reverse(items), name)

\* C7: whenever the history table is on the page, the status of each row is
\* the classification of its record against the historical low of the
\* record's own item name, whatever is selected or typed in the form.
C7_StatusIsAgainstTheRecordsOwnLow ==
    (~loading /\ ~crashed)
        => \A i \in 1..Len(items) :
               StatusColumn[i] = renderDealStatus(items[i], ItemLow(items, items[i].name))

\* C8: a record just created (demo mode: stored and on the page) whose unit
\* price is <= every unit price recorded before under its name is shown with
\* the status NewRockBottom, whatever target was stated.
C8_NewLowIsShownAsNewRockBottom ==
    (last.op = "submit" /\ last.result = "stored")
        => LET new == items[1]
               earlier == { r \in Range(Tail(items)) : r.name = new.name }
           IN  (/\ new = last.item
                /\ IsFinite(new.unitPrice)
                /\ \A r \in earlier : Lte(new.unitPrice, r.unitPrice))
                   => StatusColumn[1] = "NewRockBottom"

\* C9: when the user picks an item in the selector, whatever was selected
\* before, the form's unit becomes the unit of the first record with that
\* name and the suggested target becomes, with four fraction digits, the
\* historical low of the picked item if that is > 0 and that record's own
\* rockBottomPrice if not; if no record has the name the form is untouched.
C9_PickSuggestsTheLowOfThePickedItem ==
    [][ (last'.op = "select" /\ selectedItem' # <<>>)
        => LET k == FindIndex(items, selectedItem')
               low == ItemLow(items, selectedItem')
           IN  IF k = 0 THEN form' = form
               ELSE /\ form'.unit = items[k].unit
                    /\ form'.rockBottomPrice =
                          IF Gt(low, 0) THEN ToFixed(low, 4)
                          ELSE IF Truthy(items[k].rockBottomPrice)
                               THEN ToFixed(items[k].rockBottomPrice, 4)
                               ELSE <<>>
      ]_vars


\* q lists, each once and in ascending order, the names the records of recs have
IsSortedCatalogOf(q, recs) ==
    /\ Range(q) = { r.name : r \in Range(recs) }
    /\ \A i \in 1..(Len(q) - 1) : LexLess(q[i], q[i + 1])

\* C11: in every reachable state (after the load of a session, after each
\* snapshot, after each submission whether its persistence call returns or
\* throws) uniqueItems is the distinct names of the records in items, in
\* ascending order.
C11_CatalogIsTheSortedNamesOfItems ==
    IsSortedCatalogOf(uniqueItems, items)

\* C12: at every accepted submission the historical low handleSubmit reads is
\* the least unitPrice of the records already held under the name persisted
\* on the new record (the typed name, trimmed), and 0 when there is none;
\* also when the name was typed with white space around it.
C12_LowReadIsThatOfThePersistedName ==
    (last.op = "submit" /\ last.appended)
        => last.hl = ItemLow(RecordsBeforeLastSubmit, last.item.name)

=============================================================================
